---------------------------- MODULE Spec2Model ----------------------------
(***************************************************************************)
(* Model of the scheduling-and-playback engine of the Discord voice        *)
(* reminder bot: EventScheduler (src/src/scheduler/cron.js),               *)
(* VoiceConnectionManager (src/src/voice/connection.js) and                *)
(* AudioPlayerManager (src/src/audio/player.js).                           *)
(*                                                                         *)
(* One action is one run-to-completion step of the single-threaded event   *)
(* loop: the code between two suspension points (await, timer, emitter     *)
(* callback), including the continuations that the same event resumes.     *)
(***************************************************************************)
EXTENDS Integers, Sequences, FiniteSets, Bags, TLC

\* ------------------------------------------------------------------ bounds

\* Number of per-channel executions explored: a trigger launches one per
\* configured channel, and fires only while all of them fit.
MaxExecs == 2

\* Number of transport-reported drops (Ready/Connecting -> Disconnected) explored.
MaxDrops == 1

\* Tasks that cron.schedule creates in one run.
MaxJobs == 3

\* ----------------------------------------------------------- configuration

\* null / undefined of the JavaScript code (no session, no resource).
Null == 0

Channels == {"c1", "c2"}

Guilds == {"g1", "g2"}

\* The configurations explored: config.channelIds is <<c1>> or <<c1, c2>>.
ChannelLists == { <<"c1">>, <<"c1", "c2">> }

\* The guild directory: c1 is in g1; c2 is in g1 or in g2.
GuildMaps == { [c \in Channels |-> IF c = "c1" THEN "g1" ELSE g] : g \in Guilds }

\* Members of a voice channel as the directory reports them (member.user.bot).
Human == [id |-> "user1", bot |-> FALSE]

Bot == [id |-> "bot1", bot |-> TRUE]

MemberSets == { {}, {Bot}, {Human} }

\* Event definitions in the shape of the `events` array.
Events ==
    { [name |-> "A", type |-> "audio", content |-> "audio/a.mp3", cron |-> "valid",
       enabled |-> TRUE, requireUsers |-> "true"],
      [name |-> "R", type |-> "audio_rotate", content |-> "shugo15", cron |-> "valid",
       enabled |-> TRUE, requireUsers |-> "absent"],
      [name |-> "T", type |-> "tts", content |-> "hola", cron |-> "valid",
       enabled |-> TRUE, requireUsers |-> "false"],
      [name |-> "S", type |-> "tts", content |-> "adios", cron |-> "valid",
       enabled |-> TRUE, requireUsers |-> "true"],
      [name |-> "D", type |-> "audio", content |-> "audio/d.mp3", cron |-> "valid",
       enabled |-> FALSE, requireUsers |-> "true"],
      [name |-> "X", type |-> "audio", content |-> "audio/x.mp3", cron |-> "invalid",
       enabled |-> TRUE, requireUsers |-> "true"] }

EventNames == { ev.name : ev \in Events }

EventByName(n) == CHOOSE ev \in Events : ev.name = n

\* Wall-clock instants (in config.timezone) at which a trigger may fire.
Times ==
    { [day |-> 2, hours |-> 13, minutes |-> 30],
      [day |-> 2, hours |-> 19, minutes |-> 29],
      [day |-> 2, hours |-> 19, minutes |-> 30] }

\* Outcomes of client.channels.fetch(channelId).
FetchResults == {"throws", "null", "text", "voice"}

ExecIds == 1 .. MaxExecs

SessionIds == 1 .. MaxExecs

VARIABLES
    manual,         \* the triggerEvent calls made, in order
    window,         \* one _isMaintenanceWindow call: the instant, the zone, the result
    eventList,      \* the events array of scheduler/events.js
    startup,        \* position of EventScheduler.initialize
    jobs,           \* the tasks cron.schedule created, in creation order
    scheduledJobs,  \* EventScheduler.scheduledJobs (event name -> job)
    channelIds,     \* config.channelIds
    guildOf,        \* directory: channel id -> guild id
    members,        \* directory: channel id -> set of members
    nTriggers,      \* number of triggers fired so far
    execs,          \* the _executeEventForChannel invocations
    sessions,       \* the VoiceConnection objects created by joinVoiceChannel
    tracked,        \* @discordjs/voice registry read by getVoiceConnection
    connections,    \* VoiceConnectionManager.connections (guild -> connection)
    reconnecting,   \* VoiceConnectionManager.reconnecting
    attempts,       \* Disconnected handlers suspended in their 5 s race, per session
    timers,         \* pending setTimeout callbacks of disconnectFromChannel
    threw,          \* a callback raised an exception nobody catches
    drops,          \* transport drops so far
    player,         \* the shared AudioPlayer: exists, status, resource
    currentResource,\* AudioPlayerManager.currentResource
    idleObs,        \* playFile calls whose onIdle is registered on the player
    errObs,         \* playFile calls whose onError is registered on the player
    cache,          \* TTS cache files present on disk
    pregeneratedAudio, \* EventScheduler.pregeneratedAudio (event name -> path)
    exited,         \* shutdown(signal) ran to its process.exit(0)
    rotation,       \* one getRotatedAudio call: its arguments and its result
    tts             \* the generate calls made on the TTSGenerator, and a clock

vars == << manual, window, eventList, startup, jobs, scheduledJobs, channelIds, guildOf, members, nTriggers, execs, sessions, tracked, connections,
           reconnecting, attempts, timers, threw, drops, player,
           currentResource, idleObs, errObs, cache, pregeneratedAudio, exited,
           rotation, tts >>


\* ------------------------------------------------- voice connection manager

\* The mutable state of the process as one record, so that the synchronous
\* code of one callback composes as function application.
World ==
    [sessions |-> sessions, tracked |-> tracked, connections |-> connections,
     reconnecting |-> reconnecting, attempts |-> attempts, timers |-> timers,
     threw |-> threw, execs |-> execs, player |-> player,
     currentResource |-> currentResource, idleObs |-> idleObs,
     errObs |-> errObs, cache |-> cache]

\* The step's result becomes the next state.
Apply(w) ==
    /\ sessions' = w.sessions
    /\ tracked' = w.tracked
    /\ connections' = w.connections
    /\ reconnecting' = w.reconnecting
    /\ attempts' = w.attempts
    /\ timers' = w.timers
    /\ threw' = w.threw
    /\ execs' = w.execs
    /\ player' = w.player
    /\ currentResource' = w.currentResource
    /\ idleObs' = w.idleObs
    /\ errObs' = w.errObs
    /\ cache' = w.cache

FreeSession ==
    [status |-> "free", guildId |-> "g1", channelId |-> "c1", target |-> "c1",
     handlers |-> 0, destroys |-> 0, discCalls |-> 0, subscribed |-> FALSE]

Live(s) == s.status \notin {"free", "destroyed"}

\* getVoiceConnection(guildId)
GetVoiceConnection(v, g) == v.tracked[g]

\* The session object a join uses when none is tracked for the guild.
FreshSession(v) ==
    IF \E s \in SessionIds : v.sessions[s].status = "free"
    THEN CHOOSE s \in SessionIds :
            /\ v.sessions[s].status = "free"
            /\ \A r \in SessionIds : v.sessions[r].status = "free" => s <= r
    ELSE Null

\* A destroy after which the registry still hands the session out.
DestroyKeepsTracked(v, s) ==
    IF v.sessions[s].status = "destroyed"
    THEN [v EXCEPT !.threw = TRUE]
    ELSE [v EXCEPT
            !.sessions[s].status = "destroyed",
            !.sessions[s].destroys = @ + 1,
            !.sessions[s].subscribed = FALSE,
            !.connections[v.sessions[s].guildId] =
                IF v.sessions[s].handlers > 0 THEN Null ELSE @]

\* connection.destroy(), and the Destroyed handlers it runs synchronously.
\* The library throws when the connection is already destroyed.
Destroy(v, s) ==
    IF v.sessions[s].status = "destroyed"
    THEN [v EXCEPT !.threw = TRUE]
    ELSE LET g == v.sessions[s].guildId IN
         [v EXCEPT
            !.sessions[s].status = "destroyed",
            !.sessions[s].destroys = @ + 1,
            !.sessions[s].subscribed = FALSE,
            !.tracked[g] = IF @ = s THEN Null ELSE @,
            !.connections[g] = IF v.sessions[s].handlers > 0 THEN Null ELSE @]

\* The handler without its guard: every notification starts an attempt.
AlreadyReconnectingUnguarded(v, g) == FALSE

\* The guard of the Disconnected handler: if (this.reconnecting.has(guildId)) return
AlreadyReconnecting(v, g) == g \in v.reconnecting

\* One Disconnected handler, up to its await of the 5 s race.
OnDisconnected(v, s) ==
    LET g == v.sessions[s].guildId IN
    IF AlreadyReconnecting(v, g)
    THEN v
    ELSE [v EXCEPT !.reconnecting = @ \cup {g}, !.attempts[s] = @ + 1]

\* The emitter runs every Disconnected handler registered on the session.
RECURSIVE EmitDisconnected(_, _, _)
EmitDisconnected(v, s, n) ==
    IF n = 0 THEN v ELSE EmitDisconnected(OnDisconnected(v, s), s, n - 1)

\* A cleanup that drops the map entry and leaves the connection alone.
CleanupConnectionMapOnly(v, g) == [v EXCEPT !.connections[g] = Null]

\* _cleanupConnection(guildId)
CleanupConnection(v, g) ==
    LET connection == GetVoiceConnection(v, g)
        w == IF connection # Null THEN Destroy(v, connection) ELSE v
    IN  IF w.threw THEN w ELSE [w EXCEPT !.connections[g] = Null]

\* The timer tearing down the connection its caller captured.
TimerConnectionCaptured(v, t) == t.connection

\* The connection a disconnect timer tears down: looked up again when it fires.
TimerConnection(v, t) == GetVoiceConnection(v, t.guildId)

\* The setTimeout callback of disconnectFromChannel.
DisconnectTimerBody(v, t) ==
    LET conn == TimerConnection(v, t)
        w == IF conn # Null THEN Destroy(v, conn) ELSE v
    IN  IF w.threw THEN w ELSE [w EXCEPT !.connections[t.guildId] = Null]

\* disconnectFromChannel(guildId)
DisconnectFromChannel(v, g) ==
    LET connection == GetVoiceConnection(v, g) IN
    IF connection # Null
    THEN [v EXCEPT
            !.timers = @ (+) SetToBag({[guildId |-> g, connection |-> connection]}),
            !.sessions[connection].discCalls = IF @ < 2 THEN @ + 1 ELSE @]
    ELSE v

\* A reconnection race settles when the session reports Signalling or
\* Connecting: the handler logs, and its finally removes the in-flight mark.
SettleAttempts(v, s) ==
    IF v.attempts[s] > 0
    THEN [v EXCEPT !.attempts[s] = 0,
                   !.reconnecting = @ \ {v.sessions[s].guildId}]
    ELSE v

\* A join that opens a new session whatever the guild already has.
JoinTargetAlwaysNew(v, g) == FreshSession(v)

\* The session joinVoiceChannel hands back: the guild's tracked session when
\* there is one, a new one otherwise.
JoinTarget(v, g) ==
    IF GetVoiceConnection(v, g) # Null THEN GetVoiceConnection(v, g) ELSE FreshSession(v)

\* joinVoiceChannel({channelId, guildId, ...}) followed by
\* _setupConnectionHandlers(connection, guildId, channelId).
JoinVoiceChannel(v, g, c) ==
    LET s == JoinTarget(v, g)
        old == v.sessions[s]
    IN  IF old.status = "free"
        THEN [v EXCEPT
                !.sessions[s] = [FreeSession EXCEPT
                    !.status = "signalling", !.guildId = g, !.channelId = c,
                    !.target = c, !.handlers = 1],
                !.tracked[g] = s]
        ELSE IF old.status = "disconnected"
        THEN \* rejoin: the join config is replaced and signalling restarts,
             \* which settles the reconnection attempts waiting on the session
             SettleAttempts([v EXCEPT
                !.sessions[s].status = "signalling",
                !.sessions[s].channelId = c,
                !.sessions[s].target = c,
                !.sessions[s].handlers = @ + 1], s)
        ELSE \* move request: the join config follows the gateway's state update
             [v EXCEPT
                !.sessions[s].target = c,
                !.sessions[s].handlers = @ + 1]


\* The guilds disconnectAll() walks: the keys of this.connections.
DisconnectAllGuilds(v) == {g \in Guilds : v.connections[g] # Null}

\* for (const [guildId] of this.connections) this._cleanupConnection(guildId)
RECURSIVE CleanupEach(_, _)
CleanupEach(v, G) ==
    IF G = {} \/ v.threw THEN v
    ELSE LET g == CHOOSE x \in G : TRUE
         IN  CleanupEach(CleanupConnection(v, g), G \ {g})

\* disconnectAll(): every guild of the map is cleaned up, then the map is cleared.
DisconnectAll(v) ==
    LET w == CleanupEach(v, DisconnectAllGuilds(v))
    IN  IF w.threw THEN w ELSE [w EXCEPT !.connections = [g \in Guilds |-> Null]]

\* The 5 s race of one suspended Disconnected handler rejects: catch, finally.
ReconnectFailed(v, s) ==
    LET g == v.sessions[s].guildId
        w == CleanupConnection(v, g)
    IN  [w EXCEPT !.reconnecting = @ \ {g}, !.attempts[s] = @ - 1]

\* ------------------------------------------------------------ audio player

\* A cleanup() that forgets the error observer.
DetachObserversIdleOnly(w, e) == [w EXCEPT !.idleObs = @ \ {e}]

\* cleanup() of playFile: player.off(Idle, onIdle); player.off('error', onError)
DetachObservers(w, e) == [w EXCEPT !.idleObs = @ \ {e}, !.errObs = @ \ {e}]

\* AudioPlayerManager.destroy(): player.stop(true) forces the player to Idle,
\* which runs the manager's Idle handler and every registered onIdle (each
\* detaches its two observers and resolves its promise); then the player and
\* the current resource are dropped.  The resolved executions do not resume
\* before the caller goes on.
DestroyPlayer(w) ==
    IF ~w.player.exists
    THEN [w EXCEPT !.currentResource = Null]
    ELSE LET stopped == IF w.player.status = "playing" THEN w.idleObs ELSE {}
         IN  [w EXCEPT
                !.player = [exists |-> FALSE, status |-> "idle", resource |-> Null],
                !.currentResource = Null,
                !.idleObs = @ \ stopped,
                !.errObs = @ \ stopped,
                !.execs = [e \in ExecIds |->
                    IF e \in stopped /\ w.execs[e].pc = "play"
                    THEN [w.execs[e] EXCEPT !.pc = "resolved"]
                    ELSE w.execs[e]]]

\* ---------------------------------------------------------- event scheduler

\* A window test that compares whole hours only.
IsMaintenanceWindowHoursOnly(now) ==
    now.day = 2 /\ now.hours >= 13 /\ now.hours < 19

\* A window that still holds at its end minute.
IsMaintenanceWindowClosedEnd(now) ==
    now.day = 2 /\ now.hours * 60 + now.minutes >= 13 * 60 + 30
                /\ now.hours * 60 + now.minutes <= 19 * 60 + 30

\* _isMaintenanceWindow(), with `now` the current time in config.timezone
IsMaintenanceWindow(now) ==
    LET currentTimeInMinutes == now.hours * 60 + now.minutes
        isTuesday == now.day = 2
        startTime == 13 * 60 + 30
        endTime == 19 * 60 + 30
    IN  isTuesday /\ currentTimeInMinutes >= startTime /\ currentTimeInMinutes < endTime

\* An occupancy requirement that an absent requireUsers does not switch on.
RequireUsersOnlyTrue(event) == event.requireUsers = "true"

\* const requireUsers = event.requireUsers !== false
RequireUsers(event) == event.requireUsers # "false"

\* A count that does not filter the bots out.
CountMembersAll(ms) == Cardinality(ms)

\* channel.members.filter(member => !member.user.bot).size
CountMembers(ms) == Cardinality({m \in ms : ~m.bot})

\* An occupancy check that lets the event through when the fetch throws.
HasUsersFailOpen(res, ms) ==
    IF res = "throws" THEN TRUE
    ELSE IF res \in {"null", "text"} THEN FALSE
    ELSE Cardinality({m \in ms : ~m.bot}) > 0

\* _hasUsersInChannel(channelId), given what the fetch produced
HasUsersInChannel(res, ms) ==
    IF res = "throws" THEN FALSE
    ELSE IF res \in {"null", "text"} THEN FALSE
    ELSE CountMembers(ms) > 0

\* _getVoiceChannel(channelId), given what the fetch produced
GetVoiceChannel(res, c) == IF res = "voice" THEN c ELSE ""

\* audioSets
AudioSets ==
    [setName \in {"shugo15", "shugo10"} |->
        IF setName = "shugo15"
        THEN <<"audio/shugo.mp3", "audio/shugo_1.mp3", "audio/shugo_2.mp3">>
        ELSE <<"audio/shugo5.mp3", "audio/shugo5_1.mp3", "audio/shugo5_2.mp3">>]

\* audioSets[setName]: a property read on an object literal.  An own property
\* is one of the arrays; a name inherited from Object.prototype yields that
\* member (constructor is the function Object, whose length is 1; toString is
\* a function of length 0; neither has indexed elements); any other name
\* yields undefined.
PropertyOf(setName) ==
    IF setName \in DOMAIN AudioSets
    THEN [defined |-> TRUE, length |-> Len(AudioSets[setName]), items |-> AudioSets[setName]]
    ELSE IF setName = "constructor"
    THEN [defined |-> TRUE, length |-> 1, items |-> << >>]
    ELSE IF setName = "toString"
    THEN [defined |-> TRUE, length |-> 0, items |-> << >>]
    ELSE [defined |-> FALSE, length |-> 0, items |-> << >>]

\* getRotatedAudio(setName) at local hour `hour`: "" is the thrown error,
\* "undefined" the value of an element that does not exist.
GetRotatedAudio(setName, hour) ==
    LET set == PropertyOf(setName) IN
    IF ~set.defined \/ set.length = 0 THEN ""
    ELSE LET index == hour % set.length IN
         IF index + 1 \in DOMAIN set.items THEN set.items[index + 1] ELSE "undefined"

Hours == {0, 1, 2, 23}

\* config.tts
ConfigTts == [voice |-> "es-MX-DaliaNeural", rate |-> "+0%", pitch |-> "+0Hz"]

\* _getCacheKey(text, voice): the name of the cache file, the md5 of
\* `${text}|${voice}|${config.tts.rate}|${config.tts.pitch}`.  The hash is
\* taken to be free of collisions, so the name is the hashed tuple.
GetCacheKey(text, voice) == <<"tts", text, voice, ConfigTts.rate, ConfigTts.pitch>>

\* The cache file of a text under the configured voice, rate and pitch.
CacheKey(text) == GetCacheKey(text, ConfigTts.voice)

\* A getCached that never finds the file.
GetCachedNever(files, text, voice) == << >>

\* getCached(text, voice): the path of the cache file if it exists, else
\* null (the empty tuple).
GetCached(files, text, voice) ==
    IF GetCacheKey(text, voice) \in files THEN GetCacheKey(text, voice) ELSE << >>

\* options.x || config.tts.x, an absent option being ""
OrDefault(option, default) == IF option = "" THEN default ELSE option

NewExec ==
    [pc |-> "idle", channelId |-> "c1", event |-> "A", now |-> [day |-> 2, hours |-> 13, minutes |-> 30],
     occupancy |-> "none",
     guildId |-> "", joined |-> Null, connection |-> Null, retStatus |-> "none",
     outcome |-> "none", cause |-> Null, rejected |-> FALSE, asset |-> "none",
     pendingDisconnect |-> FALSE,
     calls |-> [lookup |-> 0, connect |-> 0, play |-> 0, disconnect |-> 0]]

\* A disconnect requested at the end of the try block only.
ShouldDisconnectOnSuccess(x, outcome) ==
    x.connection # Null /\ x.guildId # "" /\ outcome = "played"

\* The condition of the finally block: if (connection && guildId)
ShouldDisconnect(x, outcome) == x.connection # Null /\ x.guildId # ""

\* The ways an execution ends by an exception: connectToChannel rethrows,
\* generate or getRotatedAudio throws, playFile throws or rejects.  The other
\* ends are plain returns.
Throws(outcome) == outcome \in {"connectFailed", "assetFailed", "fileNotFound", "playError"}

\* A try block that starts at the playFile call.
InsideTryFromPlay(outcome) == outcome \in {"fileNotFound", "playError", "played"}

\* The code positions the try block of _executeEventForChannel encloses: from
\* the channel lookup to the end of playFile.
InsideTry(outcome) ==
    outcome \in {"nochannel", "connectFailed", "assetFailed", "fileNotFound", "playError", "played"}

\* The catch and finally of _executeEventForChannel: the execution ends, and
\* requests a disconnect when it holds a connection.  An exception raised
\* outside the try block rejects the execution's promise.
Finish(w, e, outcome) ==
    LET x == w.execs[e]
        d == ShouldDisconnect(x, outcome)
        w1 == IF d THEN DisconnectFromChannel(w, x.guildId) ELSE w
    IN  [w1 EXCEPT !.execs[e].pc = "done",
                   !.execs[e].outcome = outcome,
                   !.execs[e].rejected = Throws(outcome) /\ ~InsideTry(outcome),
                   !.execs[e].calls.disconnect = IF d THEN @ + 1 ELSE @]

\* await Promise.allSettled(promises): fulfils whatever the executions did.
AllSettledRejects(rejections) == FALSE

\* connectToChannel returned `s` to the execution, which then awaits the
\* 500 ms settle delay.  pendingDisconnect notes whether a disconnect timer
\* of the guild was pending at that moment.
Returned(w, e, s) ==
    IF s = Null
    THEN Finish(w, e, "connectFailed")
    ELSE [w EXCEPT !.execs[e].connection = s,
                   !.execs[e].retStatus = w.sessions[s].status,
                   !.execs[e].pendingDisconnect =
                       \E t \in BagToSet(w.timers) : t.guildId = w.execs[e].guildId,
                   !.execs[e].pc = "delay"]

\* A connectToChannel that stores the map entry before it waits for Ready.
ConnectToChannelStoresFirst(w, e) ==
    LET c == w.execs[e].channelId
        g == guildOf[c]
        existingConnection == GetVoiceConnection(w, g)
        w0 == [w EXCEPT !.execs[e].guildId = g, !.execs[e].calls.connect = @ + 1]
    IN  IF existingConnection # Null /\ w.sessions[existingConnection].channelId = c
        THEN Returned(w0, e, existingConnection)
        ELSE LET connection == JoinTarget(w0, g)
                 j == [JoinVoiceChannel(w0, g, c) EXCEPT !.connections[g] = connection]
             IN  IF j.sessions[connection].status = "ready"
                 THEN Returned(j, e, connection)
                 ELSE [j EXCEPT !.execs[e].pc = "connect",
                                !.execs[e].joined = connection]

\* connectToChannel(channel), up to its return or its await of Ready.
ConnectToChannel(w, e) ==
    LET c == w.execs[e].channelId
        g == guildOf[c]
        existingConnection == GetVoiceConnection(w, g)
        w0 == [w EXCEPT !.execs[e].guildId = g, !.execs[e].calls.connect = @ + 1]
    IN  IF existingConnection # Null /\ w.sessions[existingConnection].channelId = c
        THEN Returned(w0, e, existingConnection)
        ELSE LET connection == JoinTarget(w0, g)
                 j == JoinVoiceChannel(w0, g, c)
             IN  IF j.sessions[connection].status = "ready"
                 THEN Returned([j EXCEPT !.connections[g] = connection], e, connection)
                 ELSE [j EXCEPT !.execs[e].pc = "connect",
                                !.execs[e].joined = connection]

\* connection.subscribe(player): a destroyed connection takes no subscription.
Subscribe(w, s) ==
    IF w.sessions[s].status = "destroyed" THEN w
    ELSE [w EXCEPT !.sessions[s].subscribed = TRUE]

\* A playFile that looks for the file only after it prepared the playback.
PlayFileCheckLate(w, e, exists) ==
    LET w0 == Subscribe([w EXCEPT !.execs[e].calls.play = @ + 1,
                                  !.player.exists = TRUE,
                                  !.currentResource = e], w.execs[e].connection) IN
    IF ~exists
    THEN Finish(w0, e, "fileNotFound")
    ELSE [w0 EXCEPT
            !.player = [exists |-> TRUE, status |-> "playing", resource |-> e],
            !.idleObs = @ \cup {e},
            !.errObs = @ \cup {e},
            !.execs[e].pc = "play"]

\* playFile(filePath, connection), up to its throw or its returned promise.
PlayFile(w, e, exists) ==
    LET w0 == [w EXCEPT !.execs[e].calls.play = @ + 1] IN
    IF ~exists
    THEN Finish(w0, e, "fileNotFound")
    ELSE [Subscribe(w0, w0.execs[e].connection) EXCEPT
            !.player = [exists |-> TRUE, status |-> "playing", resource |-> e],
            !.currentResource = e,
            !.idleObs = @ \cup {e},
            !.errObs = @ \cup {e},
            !.execs[e].pc = "play"]

\* An onIdle that answers only the idle of its own resource.
OnIdleOwnOnly(w, e, resource) ==
    IF resource # e THEN w
    ELSE LET w0 == DetachObservers([w EXCEPT !.idleObs = @ \ {e}], e) IN
         IF w0.execs[e].pc = "play"
         THEN Finish([w0 EXCEPT !.execs[e].cause = resource], e, "played")
         ELSE w0

\* onIdle of one playFile call: detach, resolve; the execution logs and ends.
OnIdle(w, e, resource) ==
    LET w0 == DetachObservers([w EXCEPT !.idleObs = @ \ {e}], e) IN
    IF w0.execs[e].pc = "play"
    THEN Finish([w0 EXCEPT !.execs[e].cause = resource], e, "played")
    ELSE w0

\* onError of one playFile call: detach, reject; the execution catches and ends.
OnError(w, e, resource) ==
    LET w0 == DetachObservers([w EXCEPT !.errObs = @ \ {e}], e) IN
    IF w0.execs[e].pc = "play"
    THEN Finish([w0 EXCEPT !.execs[e].cause = resource], e, "playError")
    ELSE w0

Lowest(S) == CHOOSE x \in S : \A y \in S : x <= y

Highest(S) == CHOOSE x \in S : \A y \in S : y <= x

RECURSIVE EmitIdle(_, _, _)
EmitIdle(w, S, resource) ==
    IF S = {} THEN w
    ELSE EmitIdle(OnIdle(w, Lowest(S), resource), S \ {Lowest(S)}, resource)

RECURSIVE EmitError(_, _, _)
EmitError(w, S, resource) ==
    IF S = {} THEN w
    ELSE EmitError(OnError(w, Lowest(S), resource), S \ {Lowest(S)}, resource)

\* entersState(connection, Ready) resolved for every connectToChannel waiting
\* on the session: each stores the connection and returns it.
RECURSIVE ResumeConnects(_, _, _)
ResumeConnects(w, S, s) ==
    IF S = {} THEN w
    ELSE LET e == Lowest(S)
             g == w.execs[e].guildId
         IN  ResumeConnects(Returned([w EXCEPT !.connections[g] = s], e, s), S \ {e}, s)


\* An execution that calls connectToChannel before it evaluates any gate.
StartExecUngated(w, e, name, channelId, now) ==
    ConnectToChannel([w EXCEPT !.execs[e] =
        [NewExec EXCEPT !.event = name, !.channelId = channelId, !.now = now,
                        !.pc = "fetch", !.calls.lookup = 1]], e)

\* The start of _executeEventForChannel(event, channelId), up to its first
\* await: the maintenance gate, then the occupancy lookup or the channel lookup.
StartExec(w, e, name, channelId, now) ==
    LET event == EventByName(name)
        x == [NewExec EXCEPT !.event = name, !.channelId = channelId, !.now = now]
    IN  IF IsMaintenanceWindow(now)
        THEN [w EXCEPT !.execs[e] = [x EXCEPT !.pc = "done", !.outcome = "maintenance"]]
        ELSE IF RequireUsers(event)
        THEN [w EXCEPT !.execs[e] = [x EXCEPT !.pc = "occ", !.calls.lookup = 1]]
        ELSE [w EXCEPT !.execs[e] = [x EXCEPT !.pc = "fetch", !.calls.lookup = 1]]

\* A launch that starts the first channel only.
LaunchFirstOnly == {1}

\* The positions of config.channelIds that one trigger launches.
LaunchIndices == 1 .. Len(channelIds)

\* config.channelIds.map(channelId => this._executeEventForChannel(event, channelId))
RECURSIVE LaunchAll(_, _, _, _, _)
LaunchAll(w, t, S, name, now) ==
    IF S = {} THEN w
    ELSE LaunchAll(StartExec(w, t * Len(channelIds) + Lowest(S), name,
                             channelIds[Lowest(S)], now),
                   t, S \ {Lowest(S)}, name, now)

\* ---------------------------------------------------------------- startup

\* The scheduler's own state as one record, for the synchronous stretches of
\* initialize, scheduleEvent and stopAll.
Sched ==
    [cache |-> cache, pregeneratedAudio |-> pregeneratedAudio, startup |-> startup,
     jobs |-> jobs, scheduledJobs |-> scheduledJobs]

ApplySched(st) ==
    /\ cache' = st.cache
    /\ pregeneratedAudio' = st.pregeneratedAudio
    /\ startup' = st.startup
    /\ jobs' = st.jobs
    /\ scheduledJobs' = st.scheduledJobs

IsEnabled(event) == event.enabled

IsTts(event) == event.type = "tts"

\* getEnabledEvents(): events.filter(event => event.enabled)
GetEnabledEvents(list) == SelectSeq(list, IsEnabled)

\* eventsList.filter(e => e.type === EventType.TTS)
TtsEvents(list) == SelectSeq(list, IsTts)

\* A scheduleEvent that does not validate the expression.
ScheduleEventUnvalidated(st, event) ==
    [st EXCEPT !.jobs = Append(@, [event |-> event.name, running |-> TRUE]),
               !.scheduledJobs[event.name] = Len(st.jobs) + 1]

\* scheduleEvent(event): an invalid expression is logged and nothing is
\* created; else cron.schedule starts a task and the registry maps the
\* event's name to it, replacing whatever the name mapped to.
ScheduleEvent(st, event) ==
    IF event.cron # "valid" THEN st
    ELSE [st EXCEPT !.jobs = Append(@, [event |-> event.name, running |-> TRUE]),
                    !.scheduledJobs[event.name] = Len(st.jobs) + 1]

\* for (const event of enabledEvents) this.scheduleEvent(event)
RECURSIVE ScheduleFrom(_, _, _)
ScheduleFrom(st, list, k) ==
    IF k > Len(list) THEN st
    ELSE ScheduleFrom(ScheduleEvent(st, list[k]), list, k + 1)

\* The end of initialize: _pregenerateTTS has returned.
ScheduleAll(st) ==
    [ScheduleFrom(st, GetEnabledEvents(eventList), 1) EXCEPT
        !.startup = [pc |-> "ready", next |-> 0, inflight |-> {}]]

\* A loop that starts every remaining generate call before awaiting any.
PregenerateWaveAll(list, k) == k .. Len(list)

\* The positions of ttsEvents whose generate call is started before the
\* loop of _pregenerateTTS awaits: the loop awaits each call in turn.
PregenerateWave(list, k) == {k}

\* One call of ttsGenerator.generate(event.content) up to its first await
\* on the synthesis: a cache hit returns the path, which the loop stores in
\* pregeneratedAudio; a miss leaves the synthesis in flight.
PregenerateCall(st, event) ==
    IF GetCached(st.cache, event.content, ConfigTts.voice) # << >>
    THEN [st EXCEPT !.pregeneratedAudio[event.name] =
                        GetCached(st.cache, event.content, ConfigTts.voice)]
    ELSE [st EXCEPT !.startup.inflight = @ \cup {event.name}]

RECURSIVE PregenerateCalls(_, _, _)
PregenerateCalls(st, list, S) ==
    IF S = {} THEN st
    ELSE PregenerateCalls(PregenerateCall(st, list[Lowest(S)]), list, S \ {Lowest(S)})

\* The loop of _pregenerateTTS from position k until it has to wait for a
\* synthesis; after the last event initialize goes on to schedule.
RECURSIVE PregenerateFrom(_, _)
PregenerateFrom(st, k) ==
    LET ttsEvents == TtsEvents(GetEnabledEvents(eventList))
        wave == PregenerateWave(ttsEvents, k)
        started == PregenerateCalls([st EXCEPT !.startup.pc = "pregen",
                                               !.startup.next = Highest(wave) + 1],
                                    ttsEvents, wave)
    IN  IF k > Len(ttsEvents) THEN ScheduleAll(st)
        ELSE IF started.startup.inflight # {} THEN started
        ELSE PregenerateFrom(started, Highest(wave) + 1)

\* initialize(): with no enabled event it warns and returns.
InitializeBody(st) ==
    IF Len(GetEnabledEvents(eventList)) = 0
    THEN [st EXCEPT !.startup = [pc |-> "ready", next |-> 0, inflight |-> {}]]
    ELSE PregenerateFrom(st, 1)

\* A pre-generation that never stores the path it obtained.
PregenerateSettledNoEntry(st, name, ok) ==
    LET stored == IF ok
                  THEN [st EXCEPT !.cache = @ \cup {CacheKey(EventByName(name).content)},
                                  !.startup.inflight = @ \ {name}]
                  ELSE [st EXCEPT !.startup.inflight = @ \ {name}]
    IN  IF stored.startup.inflight # {} THEN stored
        ELSE PregenerateFrom(stored, stored.startup.next)

\* A synthesis awaited by _pregenerateTTS settles: the file is written and
\* its path stored under the event's name, or the failure is logged; the
\* loop goes on once nothing it awaits is left.
PregenerateSettled(st, name, ok) ==
    LET stored == IF ok
                  THEN [st EXCEPT !.cache = @ \cup {CacheKey(EventByName(name).content)},
                                  !.pregeneratedAudio[name] = CacheKey(EventByName(name).content),
                                  !.startup.inflight = @ \ {name}]
                  ELSE [st EXCEPT !.startup.inflight = @ \ {name}]
    IN  IF stored.startup.inflight # {} THEN stored
        ELSE PregenerateFrom(stored, stored.startup.next)

\* stopAll(): every job of the registry is stopped and the registry cleared.
StopAll(st) ==
    [st EXCEPT !.jobs = [j \in DOMAIN st.jobs |->
                            IF \E n \in EventNames : st.scheduledJobs[n] = j
                            THEN [st.jobs[j] EXCEPT !.running = FALSE]
                            ELSE st.jobs[j]],
               !.scheduledJobs = [n \in EventNames |-> 0]]

\* ------------------------------------------------------------------ actions

\* The events array as shipped: every event enabled, every expression valid,
\* every name distinct.
ShippedEvents == << EventByName("A"), EventByName("R"), EventByName("T") >>

\* The scheduler before the client is ready: initialize not called yet.
NotStarted == [pc |-> "created", next |-> 0, inflight |-> {}]

ProcessInit ==
    /\ manual = << >>
    /\ startup = NotStarted
    /\ jobs = << >>
    /\ scheduledJobs = [n \in EventNames |-> 0]
    /\ channelIds \in ChannelLists
    /\ guildOf \in GuildMaps
    /\ members \in [Channels -> MemberSets]
    /\ \A c \in Channels : (\A i \in DOMAIN channelIds : channelIds[i] # c) =>
            (guildOf[c] = "g1" /\ members[c] = {})
    /\ nTriggers = 0
    /\ execs = [e \in ExecIds |-> NewExec]
    /\ sessions = [s \in SessionIds |-> FreeSession]
    /\ tracked = [g \in Guilds |-> Null]
    /\ connections = [g \in Guilds |-> Null]
    /\ reconnecting = {}
    /\ attempts = [s \in SessionIds |-> 0]
    /\ timers = EmptyBag
    /\ threw = FALSE
    /\ drops = 0
    /\ player = [exists |-> FALSE, status |-> "idle", resource |-> Null]
    /\ currentResource = Null
    /\ idleObs = {}
    /\ errObs = {}
    /\ cache = {}
    /\ pregeneratedAudio = [n \in EventNames |-> << >>]
    /\ exited = FALSE

\* No _isMaintenanceWindow call under study.
NoWindow == [day |-> 0, minute |-> 0, offset |-> 0, done |-> FALSE, result |-> FALSE]

\* No getRotatedAudio call under study.
NoRotation == [setName |-> "", hour |-> 0, done |-> FALSE, result |-> ""]

\* No generate call made yet.
NoTts == [calls |-> << >>, clock |-> 0, clears |-> 0]

Init ==
    /\ ProcessInit
    /\ eventList = ShippedEvents
    /\ window = NoWindow
    /\ rotation = NoRotation
    /\ tts = NoTts

\* The client is ready: the scheduler is created and initialize() runs up
\* to its first await.
Initialize ==
    /\ startup.pc = "created"
    /\ ApplySched(InitializeBody(Sched))
    /\ UNCHANGED << manual, window, eventList, rotation, tts, exited, channelIds, guildOf, members, nTriggers,
                    execs, sessions, tracked, connections, reconnecting, attempts,
                    timers, threw, drops, player, currentResource, idleObs, errObs >>

\* A synthesis started by _pregenerateTTS settles.
PregenerateReturn(name, ok) ==
    /\ startup.pc = "pregen"
    /\ name \in startup.inflight
    /\ ApplySched(PregenerateSettled(Sched, name, ok))
    /\ UNCHANGED << manual, window, eventList, rotation, tts, exited, channelIds, guildOf, members, nTriggers,
                    execs, sessions, tracked, connections, reconnecting, attempts,
                    timers, threw, drops, player, currentResource, idleObs, errObs >>

\* A running cron task fires: its callback runs _executeEventForAllChannels
\* with the event it was created for.
Trigger(j, now) ==
    /\ j \in DOMAIN jobs
    /\ jobs[j].running
    /\ (nTriggers + 1) * Len(channelIds) <= MaxExecs
    /\ nTriggers' = nTriggers + 1
    /\ Apply(LaunchAll(World, nTriggers, LaunchIndices, jobs[j].event, now))
    /\ UNCHANGED << manual, window, eventList, startup, jobs, scheduledJobs, rotation, tts, exited, pregeneratedAudio, channelIds, guildOf, members, drops >>

\* The fetch awaited by _hasUsersInChannel settles.
OccupancyReturn(e, res) ==
    /\ execs[e].pc = "occ"
    /\ LET hasUsers == HasUsersInChannel(res, members[execs[e].channelId]) IN
       IF ~hasUsers
       THEN Apply([World EXCEPT !.execs[e].pc = "done", !.execs[e].outcome = "nousers",
                                !.execs[e].occupancy = res])
       ELSE Apply([World EXCEPT !.execs[e].pc = "fetch", !.execs[e].calls.lookup = @ + 1,
                                !.execs[e].occupancy = res])
    /\ UNCHANGED << manual, window, eventList, startup, jobs, scheduledJobs, rotation, tts, exited, pregeneratedAudio, channelIds, guildOf, members, nTriggers, drops >>

\* The fetch awaited by _getVoiceChannel settles; on a voice channel the
\* execution calls connectToChannel.
ChannelReturn(e, res) ==
    /\ execs[e].pc = "fetch"
    /\ LET channel == GetVoiceChannel(res, execs[e].channelId) IN
       IF channel = ""
       THEN Apply(Finish(World, e, "nochannel"))
       ELSE Apply(ConnectToChannel(World, e))
    /\ UNCHANGED << manual, window, eventList, startup, jobs, scheduledJobs, rotation, tts, exited, pregeneratedAudio, channelIds, guildOf, members, nTriggers, drops >>

\* entersState(connection, Ready, 30_000) rejects: connectToChannel rethrows.
ConnectTimeout(e) ==
    /\ execs[e].pc = "connect"
    /\ Apply(Finish(World, e, "connectFailed"))
    /\ UNCHANGED << manual, window, eventList, startup, jobs, scheduledJobs, rotation, tts, exited, pregeneratedAudio, channelIds, guildOf, members, nTriggers, drops >>

\* The settle delay elapses: the audio path is resolved and playFile is called.
DelayDone(e, hour, exists) ==
    /\ execs[e].pc = "delay"
    /\ LET event == EventByName(execs[e].event) IN
       IF event.type = "tts"
       THEN IF pregeneratedAudio[event.name] # << >>
            THEN Apply(PlayFile([World EXCEPT !.execs[e].asset = "registry"], e,
                                pregeneratedAudio[event.name] \in cache))
            ELSE IF GetCached(cache, event.content, ConfigTts.voice) # << >>
            THEN Apply(PlayFile([World EXCEPT !.execs[e].asset = "cached"], e, TRUE))
            ELSE Apply([World EXCEPT !.execs[e].pc = "gen", !.execs[e].asset = "synthesized"])
       ELSE IF event.type = "audio_rotate"
       THEN IF GetRotatedAudio(event.content, hour) = ""
            THEN Apply(Finish(World, e, "assetFailed"))
            ELSE Apply(PlayFile([World EXCEPT !.execs[e].asset = "file"], e, exists))
       ELSE Apply(PlayFile([World EXCEPT !.execs[e].asset = "file"], e, exists))
    /\ UNCHANGED << manual, window, eventList, startup, jobs, scheduledJobs, rotation, tts, exited, pregeneratedAudio, channelIds, guildOf, members, nTriggers, drops >>

\* The synthesis awaited by ttsGenerator.generate settles.
GenerateReturn(e, ok) ==
    /\ execs[e].pc = "gen"
    /\ IF ok
       THEN Apply(PlayFile([World EXCEPT
                !.cache = @ \cup {CacheKey(EventByName(execs[e].event).content)}], e, TRUE))
       ELSE Apply(Finish(World, e, "assetFailed"))
    /\ UNCHANGED << manual, window, eventList, startup, jobs, scheduledJobs, rotation, tts, exited, pregeneratedAudio, channelIds, guildOf, members, nTriggers, drops >>

\* The player reports Idle: the manager's handler, then every onIdle.
PlayerIdle ==
    /\ player.status = "playing"
    /\ Apply(EmitIdle([World EXCEPT !.player.status = "idle",
                                    !.player.resource = Null,
                                    !.currentResource = Null],
                      idleObs, player.resource))
    /\ UNCHANGED << manual, window, eventList, startup, jobs, scheduledJobs, rotation, tts, exited, pregeneratedAudio, channelIds, guildOf, members, nTriggers, drops >>

\* The player reports an error and goes Idle: the manager's handlers, every
\* onError, then every onIdle still registered.
PlayerError ==
    /\ player.status = "playing"
    /\ LET w1 == EmitError([World EXCEPT !.currentResource = Null], errObs, player.resource)
           w2 == [w1 EXCEPT !.player.status = "idle", !.player.resource = Null]
       IN  Apply(EmitIdle(w2, w2.idleObs, player.resource))
    /\ UNCHANGED << manual, window, eventList, startup, jobs, scheduledJobs, rotation, tts, exited, pregeneratedAudio, channelIds, guildOf, members, nTriggers, drops >>

\* The transport moves a session from Signalling to Connecting.
TransportConnecting(s) ==
    /\ sessions[s].status = "signalling"
    /\ Apply(SettleAttempts([World EXCEPT !.sessions[s].status = "connecting"], s))
    /\ UNCHANGED << manual, window, eventList, startup, jobs, scheduledJobs, rotation, tts, exited, pregeneratedAudio, channelIds, guildOf, members, nTriggers, drops >>

\* The transport reports Ready: every connectToChannel waiting on it resumes.
TransportReady(s) ==
    /\ sessions[s].status = "connecting"
    /\ Apply(ResumeConnects([World EXCEPT !.sessions[s].status = "ready"],
                            {e \in ExecIds : execs[e].pc = "connect" /\ execs[e].joined = s}, s))
    /\ UNCHANGED << manual, window, eventList, startup, jobs, scheduledJobs, rotation, tts, exited, pregeneratedAudio, channelIds, guildOf, members, nTriggers, drops >>

\* The transport reports Disconnected: the Disconnected handlers run.
TransportDisconnected(s) ==
    /\ sessions[s].status \in {"signalling", "connecting", "ready"}
    /\ drops < MaxDrops
    /\ drops' = drops + 1
    /\ Apply(EmitDisconnected([World EXCEPT !.sessions[s].status = "disconnected"],
                              s, sessions[s].handlers))
    /\ UNCHANGED << manual, window, eventList, startup, jobs, scheduledJobs, rotation, tts, exited, pregeneratedAudio, channelIds, guildOf, members, nTriggers >>

\* The transport renegotiates a disconnected session: Signalling again.
TransportSignalling(s) ==
    /\ sessions[s].status = "disconnected"
    /\ Apply(SettleAttempts([World EXCEPT !.sessions[s].status = "signalling"], s))
    /\ UNCHANGED << manual, window, eventList, startup, jobs, scheduledJobs, rotation, tts, exited, pregeneratedAudio, channelIds, guildOf, members, nTriggers, drops >>

\* The gateway confirms a requested channel move: the join config follows.
VoiceStateUpdate(s) ==
    /\ Live(sessions[s])
    /\ sessions[s].target # sessions[s].channelId
    /\ Apply([World EXCEPT !.sessions[s].channelId = sessions[s].target])
    /\ UNCHANGED << manual, window, eventList, startup, jobs, scheduledJobs, rotation, tts, exited, pregeneratedAudio, channelIds, guildOf, members, nTriggers, drops >>

\* Neither Signalling nor Connecting within 5 s: the race rejects.
ReconnectTimeout(s) ==
    /\ attempts[s] > 0
    /\ Apply(ReconnectFailed(World, s))
    /\ UNCHANGED << manual, window, eventList, startup, jobs, scheduledJobs, rotation, tts, exited, pregeneratedAudio, channelIds, guildOf, members, nTriggers, drops >>

\* A disconnect timer of disconnectFromChannel fires.
DisconnectTimer(t) ==
    /\ BagIn(t, timers)
    /\ Apply(DisconnectTimerBody([World EXCEPT !.timers = @ (-) SetToBag({t})], t))
    /\ UNCHANGED << manual, window, eventList, startup, jobs, scheduledJobs, rotation, tts, exited, pregeneratedAudio, channelIds, guildOf, members, nTriggers, drops >>

\* SIGINT or SIGTERM: shutdown(signal) stops the jobs, disconnects every
\* voice connection, destroys the player and exits the process.
Shutdown ==
    /\ ~exited
    /\ exited' = TRUE
    /\ Apply(DestroyPlayer(DisconnectAll(World)))
    /\ jobs' = StopAll(Sched).jobs
    /\ scheduledJobs' = StopAll(Sched).scheduledJobs
    /\ UNCHANGED << manual, window, eventList, startup, rotation, tts, pregeneratedAudio, channelIds, guildOf, members, nTriggers, drops >>

TimerRecords == [guildId : Guilds, connection : SessionIds]

\* An exception nobody catches ends the process.
Next ==
    /\ ~threw
    /\ ~exited
    /\ \/ Initialize
       \/ \E name \in EventNames, ok \in BOOLEAN : PregenerateReturn(name, ok)
       \/ \E j \in 1 .. MaxJobs, now \in Times : Trigger(j, now)
       \/ \E e \in ExecIds, res \in FetchResults : OccupancyReturn(e, res)
       \/ \E e \in ExecIds, res \in FetchResults : ChannelReturn(e, res)
       \/ \E e \in ExecIds : ConnectTimeout(e)
       \/ \E e \in ExecIds, hour \in Hours, exists \in BOOLEAN : DelayDone(e, hour, exists)
       \/ \E e \in ExecIds, ok \in BOOLEAN : GenerateReturn(e, ok)
       \/ PlayerIdle
       \/ PlayerError
       \/ \E s \in SessionIds : TransportConnecting(s)
       \/ \E s \in SessionIds : TransportReady(s)
       \/ \E s \in SessionIds : TransportDisconnected(s)
       \/ \E s \in SessionIds : TransportSignalling(s)
       \/ \E s \in SessionIds : VoiceStateUpdate(s)
       \/ \E s \in SessionIds : ReconnectTimeout(s)
       \/ \E t \in TimerRecords : DisconnectTimer(t)
       \/ Shutdown

Spec == Init /\ [][Next]_vars

\* Every pending callback of the event loop eventually runs: a timer fires, a
\* fetch settles, the transport and the player report.
\* Checked from the configurations with two occupied channels.
FairInit ==
    /\ Init
    /\ channelIds = <<"c1", "c2">>
    /\ \A c \in Channels : members[c] = {Human}

FairSpec == FairInit /\ [][Next]_vars /\ WF_vars(Next)

\* The process at rest, in one fixed configuration.
QuietInit ==
    /\ ProcessInit
    /\ eventList = ShippedEvents
    /\ window = NoWindow
    /\ channelIds = <<"c1">>
    /\ guildOf = [c \in Channels |-> "g1"]
    /\ members = [c \in Channels |-> {}]

\* Names getRotatedAudio is called with: the two registered sets, a name that
\* is no property at all, and two names every object inherits.
SetNames == {"shugo15", "shugo10", "missing", "constructor", "toString"}

\* new Date().getHours()
AllHours == 0 .. 23

RotateInit ==
    /\ QuietInit
    /\ tts = NoTts
    /\ rotation \in [setName : SetNames, hour : AllHours, done : {FALSE}, result : {""}]

\* getRotatedAudio(setName) is called and returns or throws.
CallGetRotatedAudio ==
    /\ ~rotation.done
    /\ rotation' = [rotation EXCEPT !.done = TRUE,
                                    !.result = GetRotatedAudio(rotation.setName, rotation.hour)]
    /\ UNCHANGED << manual, window, eventList, startup, jobs, scheduledJobs, channelIds, guildOf, members, nTriggers, execs, sessions, tracked,
                    connections, reconnecting, attempts, timers, threw, drops, player,
                    currentResource, idleObs, errObs, cache, pregeneratedAudio, exited, tts >>

RotateSpec == RotateInit /\ [][CallGetRotatedAudio]_vars

\* Number of generate calls and of clearCache calls explored.
MaxGenCalls == 2

MaxClears == 1

Texts == {"hola", "adios"}

\* Values of options.voice, options.rate and options.pitch; "" is absent.
OptionVoices == {"", "es-MX-JorgeNeural"}

OptionRates == {"", "+10%"}

OptionPitches == {"", "+5Hz"}

TtsInit ==
    /\ QuietInit
    /\ rotation = NoRotation
    /\ tts = NoTts

\* generate(text, options), up to its return from the cache or its await of
\* the synthesis.
GenerateCall(text, optVoice, optRate, optPitch, useCache) ==
    /\ Len(tts.calls) < MaxGenCalls
    /\ LET voice == OrDefault(optVoice, ConfigTts.voice)
           rate == OrDefault(optRate, ConfigTts.rate)
           pitch == OrDefault(optPitch, ConfigTts.pitch)
           cached == IF useCache THEN GetCached(cache, text, voice) ELSE << >>
           hit == cached # << >>
           call == [text |-> text, voice |-> voice, rate |-> rate, pitch |-> pitch,
                    useCache |-> useCache,
                    status |-> IF hit THEN "returned" ELSE "pending",
                    path |-> cached,
                    synthesized |-> ~hit,
                    calledAt |-> tts.clock + 1,
                    returnedAt |-> IF hit THEN tts.clock + 1 ELSE 0,
                    clearsAtCall |-> tts.clears,
                    clearsAtReturn |-> tts.clears]
       IN  tts' = [tts EXCEPT !.calls = Append(@, call), !.clock = @ + 1]
    /\ UNCHANGED << manual, window, eventList, startup, jobs, scheduledJobs, channelIds, guildOf, members, nTriggers, execs, sessions, tracked,
                    connections, reconnecting, attempts, timers, threw, drops, player,
                    currentResource, idleObs, errObs, cache, pregeneratedAudio, exited,
                    rotation >>

\* tts.synthesize() settles: the audio is written to the cache file and its
\* path returned, or the error is rethrown.
SynthesisReturn(i, ok) ==
    /\ i \in DOMAIN tts.calls
    /\ tts.calls[i].status = "pending"
    /\ LET cacheFile == GetCacheKey(tts.calls[i].text, tts.calls[i].voice) IN
       IF ok
       THEN /\ cache' = cache \cup {cacheFile}
            /\ tts' = [tts EXCEPT !.calls[i].status = "returned",
                                  !.calls[i].path = cacheFile,
                                  !.calls[i].returnedAt = tts.clock + 1,
                                  !.calls[i].clearsAtReturn = tts.clears,
                                  !.clock = @ + 1]
       ELSE /\ cache' = cache
            /\ tts' = [tts EXCEPT !.calls[i].status = "failed", !.clock = @ + 1]
    /\ UNCHANGED << manual, window, eventList, startup, jobs, scheduledJobs, channelIds, guildOf, members, nTriggers, execs, sessions, tracked,
                    connections, reconnecting, attempts, timers, threw, drops, player,
                    currentResource, idleObs, errObs, pregeneratedAudio, exited,
                    rotation >>

\* clearCache(): every tts_*.mp3 file of the cache directory is removed.
ClearCache ==
    /\ tts.clears < MaxClears
    /\ cache' = {}
    /\ tts' = [tts EXCEPT !.clears = @ + 1]
    /\ UNCHANGED << manual, window, eventList, startup, jobs, scheduledJobs, channelIds, guildOf, members, nTriggers, execs, sessions, tracked,
                    connections, reconnecting, attempts, timers, threw, drops, player,
                    currentResource, idleObs, errObs, pregeneratedAudio, exited,
                    rotation >>

TtsNext ==
    \/ \E text \in Texts, optVoice \in OptionVoices, optRate \in OptionRates,
          optPitch \in OptionPitches, useCache \in BOOLEAN :
            GenerateCall(text, optVoice, optRate, optPitch, useCache)
    \/ \E i \in 1 .. MaxGenCalls, ok \in BOOLEAN : SynthesisReturn(i, ok)
    \/ ClearCache

TtsSpec == TtsInit /\ [][TtsNext]_vars

\* The callbacks the runtime itself is bound to run: a timer that was set
\* fires, a fetch or a synthesis settles, the player finishes its resource.
\* Cron triggers and the voice transport's reports come from outside.
ProgramStep ==
    /\ ~threw
    /\ ~exited
    /\ \/ \E e \in ExecIds, res \in FetchResults : OccupancyReturn(e, res)
       \/ \E e \in ExecIds, res \in FetchResults : ChannelReturn(e, res)
       \/ \E e \in ExecIds : ConnectTimeout(e)
       \/ \E e \in ExecIds, hour \in Hours, exists \in BOOLEAN : DelayDone(e, hour, exists)
       \/ \E e \in ExecIds, ok \in BOOLEAN : GenerateReturn(e, ok)
       \/ PlayerIdle
       \/ PlayerError
       \/ \E s \in SessionIds : ReconnectTimeout(s)
       \/ \E t \in TimerRecords : DisconnectTimer(t)

\* The event loop with a transport that may stay silent for ever.
TimerFairSpec == FairInit /\ [][Next]_vars /\ WF_vars(ProgramStep)

\* ------------------------------------------------- scheduler registry alone

\* Event arrays initialize is run on: two speech events and a file; a
\* disabled event, an invalid expression and a speech event; nothing
\* enabled; a file and an invalid expression.
EventLists ==
    { << EventByName("T"), EventByName("S"), EventByName("A") >>,
      << EventByName("D"), EventByName("X"), EventByName("S") >>,
      << EventByName("D") >>,
      << EventByName("A"), EventByName("X") >> }

\* The process at rest before the client is ready, for each event array.
StartupInit ==
    /\ ProcessInit
    /\ eventList \in EventLists
    /\ window = NoWindow
    /\ channelIds = <<"c1">>
    /\ guildOf = [c \in Channels |-> "g1"]
    /\ members = [c \in Channels |-> {}]
    /\ rotation = NoRotation
    /\ tts = NoTts

\* initialize and the cron fires that follow it.
StartupNext ==
    \/ Initialize
    \/ \E name \in EventNames, ok \in BOOLEAN : PregenerateReturn(name, ok)
    \/ \E j \in 1 .. MaxJobs, now \in Times : Trigger(j, now)

StartupSpec == StartupInit /\ [][StartupNext]_vars

\* scheduleEvent(event) called on the scheduler.
ScheduleEventCall(event) ==
    /\ Len(jobs) < MaxJobs
    /\ ApplySched(ScheduleEvent(Sched, event))
    /\ UNCHANGED << manual, window, eventList, rotation, tts, exited, channelIds, guildOf, members, nTriggers,
                    execs, sessions, tracked, connections, reconnecting, attempts,
                    timers, threw, drops, player, currentResource, idleObs, errObs >>

\* stopAll() called on the scheduler.
StopAllCall ==
    /\ ApplySched(StopAll(Sched))
    /\ UNCHANGED << manual, window, eventList, rotation, tts, exited, channelIds, guildOf, members, nTriggers,
                    execs, sessions, tracked, connections, reconnecting, attempts,
                    timers, threw, drops, player, currentResource, idleObs, errObs >>

\* Any sequence of scheduleEvent and stopAll calls, and the cron fires.
JobsNext ==
    \/ \E event \in Events : ScheduleEventCall(event)
    \/ StopAllCall
    \/ \E j \in 1 .. MaxJobs, now \in Times : Trigger(j, now)

\* The scheduler constructed, initialize never called.
JobsInit ==
    /\ QuietInit
    /\ rotation = NoRotation
    /\ tts = NoTts

JobsSpec == JobsInit /\ [][JobsNext]_vars

\* ------------------------------------------------ maintenance window alone

\* UTC offsets, in minutes, of the zones config.timezone is set to here:
\* America/Mexico_City (the default), UTC and Asia/Kolkata.
ZoneOffsets == {0 - 360, 0, 330}

\* The minute of the week (Sunday 00:00 = 0) the zone's wall clock shows at
\* the instant given by a UTC day of the week and a UTC minute of the day.
WallMinute(day, minute, offset) == (day * 1440 + minute + offset + 7 * 1440) % (7 * 1440)

\* now.toLocaleString('en-US', { timeZone }): the zone's date and its time on
\* the 12-hour clock with AM or PM.
ToLocaleString(day, minute, offset) ==
    LET t == WallMinute(day, minute, offset)
        h == (t % 1440) \div 60
    IN  [day |-> t \div 1440,
         hour12 |-> IF h % 12 = 0 THEN 12 ELSE h % 12,
         pm |-> h >= 12,
         minute |-> t % 60]

\* new Date(string) read back with getDay, getHours and getMinutes.
ParseLocalDate(str) ==
    [day |-> str.day,
     hours |-> (str.hour12 % 12) + (IF str.pm THEN 12 ELSE 0),
     minutes |-> str.minute]

WindowInit ==
    /\ ProcessInit
    /\ eventList = ShippedEvents
    /\ channelIds = <<"c1">>
    /\ guildOf = [c \in Channels |-> "g1"]
    /\ members = [c \in Channels |-> {}]
    /\ rotation = NoRotation
    /\ tts = NoTts
    /\ window \in [day : 0 .. 6, minute : 0 .. 1439, offset : ZoneOffsets,
                   done : {FALSE}, result : {FALSE}]

\* _isMaintenanceWindow() is called and returns.
CallIsMaintenanceWindow ==
    /\ ~window.done
    /\ window' = [window EXCEPT
            !.done = TRUE,
            !.result = IsMaintenanceWindow(ParseLocalDate(
                           ToLocaleString(window.day, window.minute, window.offset)))]
    /\ UNCHANGED << manual, eventList, startup, jobs, scheduledJobs, channelIds, guildOf, members,
                    nTriggers, execs, sessions, tracked, connections, reconnecting,
                    attempts, timers, threw, drops, player, currentResource, idleObs,
                    errObs, cache, pregeneratedAudio, exited, rotation, tts >>

WindowSpec == WindowInit /\ [][CallIsMaintenanceWindow]_vars

\* ------------------------------------------------------- manual triggering

\* Number of triggerEvent calls explored.
MaxManual == 1

\* Names triggerEvent is called with: the events of the array, and a name
\* no event has.
TriggerNames == {"A", "R", "T", "D", "nobody"}

\* An events.find that falls back on the first event.
FindEventOrFirst(list, name) ==
    IF \E k \in DOMAIN list : list[k].name = name
    THEN Lowest({k \in DOMAIN list : list[k].name = name})
    ELSE 1

\* events.find(e => e.name === eventName): the position of the first event
\* of that name, 0 for undefined.
FindEvent(list, name) ==
    IF \E k \in DOMAIN list : list[k].name = name
    THEN Lowest({k \in DOMAIN list : list[k].name = name})
    ELSE 0

\* The shipped array with a disabled event added, two channels configured.
ManualInit ==
    /\ ProcessInit
    /\ eventList = Append(ShippedEvents, EventByName("D"))
    /\ channelIds = <<"c1", "c2">>
    /\ window = NoWindow
    /\ rotation = NoRotation
    /\ tts = NoTts

\* triggerEvent(eventName) is called on the scheduler, up to the first await
\* of the executions it starts.
TriggerEvent(name, now) ==
    /\ startup.pc # "created"
    /\ Len(manual) < MaxManual
    /\ LET k == FindEvent(eventList, name) IN
       IF k = 0
       THEN /\ manual' = Append(manual, [name |-> name, now |-> now, first |-> 0])
            /\ nTriggers' = nTriggers
            /\ Apply(World)
       ELSE /\ (nTriggers + 1) * Len(channelIds) <= MaxExecs
            /\ manual' = Append(manual, [name |-> name, now |-> now,
                                         first |-> nTriggers * Len(channelIds) + 1])
            /\ nTriggers' = nTriggers + 1
            /\ Apply(LaunchAll(World, nTriggers, LaunchIndices, eventList[k].name, now))
    /\ UNCHANGED << window, eventList, startup, jobs, scheduledJobs, rotation, tts, exited,
                    pregeneratedAudio, channelIds, guildOf, members, drops >>

\* The program's steps, and triggerEvent calls made from outside.
ManualNext ==
    \/ Next
    \/ /\ ~threw
       /\ ~exited
       /\ \E name \in TriggerNames, now \in Times : TriggerEvent(name, now)

ManualSpec == ManualInit /\ [][ManualNext]_vars

\* ------------------------------------------------------------------- claims

ExecGuild(e) == guildOf[execs[e].channelId]

Started(e) == execs[e].pc # "idle"

NoHumans(c) == \A m \in members[c] : m.bot

\* C1: an execution of an event whose requireUsers is not false, for a channel
\* with zero non-bot members (bots only included), makes no connectToChannel
\* call, no playFile call and no disconnect request, and returns normally.
C1_EmptyChannelNoEffects ==
    \A e \in ExecIds :
        ( /\ Started(e)
          /\ EventByName(execs[e].event).requireUsers # "false"
          /\ NoHumans(execs[e].channelId) )
        => /\ execs[e].calls.connect = 0
           /\ execs[e].calls.play = 0
           /\ execs[e].calls.disconnect = 0
           /\ execs[e].pc \in {"occ", "done"}
           /\ execs[e].pc = "done" => execs[e].outcome \in {"maintenance", "nousers"}

C1_Witness ==
    \E e \in ExecIds :
        /\ execs[e].pc = "done"
        /\ execs[e].outcome = "nousers"
        /\ members[execs[e].channelId] = {Bot}
        /\ EventByName(execs[e].event).requireUsers = "absent"

InWindow(now) ==
    now.day = 2 /\ now.hours * 60 + now.minutes >= 810 /\ now.hours * 60 + now.minutes < 1170

\* C2: an execution started inside the maintenance window makes no channel
\* lookup, no connectToChannel call, no playFile call and no disconnect
\* request, whatever the occupancy and the event's requireUsers.
C2_MaintenanceNoEffects ==
    \A e \in ExecIds :
        (Started(e) /\ InWindow(execs[e].now))
        => /\ execs[e].calls = [lookup |-> 0, connect |-> 0, play |-> 0, disconnect |-> 0]
           /\ execs[e].pc = "done"
           /\ execs[e].connection = Null

C2_Witness ==
    \E e \in ExecIds :
        /\ execs[e].pc = "done"
        /\ execs[e].outcome = "maintenance"
        /\ execs[e].now = [day |-> 2, hours |-> 19, minutes |-> 29]
        /\ EventByName(execs[e].event).requireUsers = "false"
        /\ ~NoHumans(execs[e].channelId)

LiveSessions(g) == {s \in SessionIds : Live(sessions[s]) /\ sessions[s].guildId = g}

AtMostOneLive == \A g \in Guilds : Cardinality(LiveSessions(g)) <= 1

\* Execution e calls connectToChannel in this step.
CallsConnect(e) == execs[e].calls.connect = 0 /\ execs'[e].calls.connect = 1

ConnectReuse ==
    \A e2 \in ExecIds : \A e1 \in ExecIds \ {e2} :
        ( /\ CallsConnect(e2)
          /\ execs[e1].connection # Null
          /\ execs[e1].channelId = execs[e2].channelId
          /\ Live(sessions[execs[e1].connection])
          /\ sessions[execs[e1].connection].channelId = execs[e2].channelId )
        => /\ execs'[e2].connection = execs[e1].connection
           /\ \A s \in SessionIds : sessions[s].status = "free" => sessions'[s].status = "free"

\* C3: each guild has at most one live voice session in every state; and a
\* connectToChannel call for a (guild, channel) for which an earlier call
\* returned a session that still targets the channel and has not been torn
\* down since returns that same session and opens no second transport session.
C3_OneSessionPerGuild == [](AtMostOneLive) /\ [][ConnectReuse]_vars

C3_Witness ==
    \E e1, e2 \in ExecIds :
        /\ e1 # e2
        /\ execs[e1].channelId = execs[e2].channelId
        /\ execs[e1].connection # Null
        /\ execs[e2].connection = execs[e1].connection
        /\ execs[e1].retStatus = "ready"

PendingTimers(s) == {t \in BagToSet(timers) : t.connection = s}

\* C4: when disconnectFromChannel was called twice for a guild's session before
\* the first timer fired, then once both timers have fired the session was
\* destroyed exactly once; destroy is never invoked twice on a session and no
\* call or timer callback throws.
C4_DoubleDisconnectOneTeardown ==
    /\ ~threw
    /\ \A s \in SessionIds :
        /\ sessions[s].destroys <= 1
        /\ (sessions[s].discCalls = 2 /\ PendingTimers(s) = {}) => sessions[s].destroys = 1

C4_Witness ==
    \E s \in SessionIds :
        /\ sessions[s].discCalls = 2
        /\ PendingTimers(s) = {}
        /\ sessions[s].destroys = 1

\* C5: an execution that obtained a session from connectToChannel requests the
\* disconnect of its guild exactly once when it ends, on every exit path, and
\* not before; an execution that obtained none requests no disconnect.
C5_DisconnectOncePerSession ==
    \A e \in ExecIds :
        /\ execs[e].pc # "done" => execs[e].calls.disconnect = 0
        /\ (execs[e].pc = "done" /\ execs[e].connection # Null)
              => /\ execs[e].calls.disconnect = 1
                 /\ execs[e].outcome \in {"played", "assetFailed", "fileNotFound", "playError"}
        /\ (execs[e].pc = "done" /\ execs[e].connection = Null)
              => /\ execs[e].calls.disconnect = 0
                 /\ execs[e].outcome \in {"maintenance", "nousers", "nochannel", "connectFailed"}

C5_Witness ==
    \E e1, e2 \in ExecIds :
        /\ execs[e1].pc = "done" /\ execs[e1].outcome = "fileNotFound"
        /\ execs[e1].calls.disconnect = 1
        /\ execs[e2].pc = "done" /\ execs[e2].outcome = "connectFailed"
        /\ execs[e2].calls.disconnect = 0

AllLaunched ==
    \A e \in ExecIds : e <= nTriggers * Len(channelIds) => Started(e)

DifferentGuilds(a, b) == a # b /\ Started(a) /\ Started(b) /\ ExecGuild(a) # ExecGuild(b)

\* C7: of two overlapping executions in different guilds, neither has its
\* submitted resource replaced by the other's playFile, and neither's playFile
\* is completed by the idle or error of the other's resource.
C7_NoCrossGuildInterference ==
    \A a, b \in ExecIds :
        DifferentGuilds(a, b)
        => /\ execs[a].pc = "play" => player.resource # b
           /\ execs[a].outcome \in {"played", "playError"} => execs[a].cause # b

Playing == {e \in ExecIds : execs[e].pc = "play"}

SettlesPlay(e) == execs[e].pc = "play" /\ execs'[e].pc = "done"

\* C8: a playFile promise settles only in a step in which the engine goes
\* from playing to idle (resolving on Idle, rejecting on error), and the
\* completion observers registered on the engine are exactly those of the
\* playFile calls still pending: none is left behind, zero when no play is
\* pending.
C8_NoObserverLeak ==
    /\ [](idleObs = Playing /\ errObs = Playing)
    /\ [][\A e \in ExecIds : SettlesPlay(e) =>
            /\ player.status = "playing" /\ player'.status = "idle"
            /\ execs'[e].outcome \in {"played", "playError"}]_vars

C8_Witness ==
    \E e1, e2 \in ExecIds :
        /\ execs[e1].outcome = "playError" /\ execs[e1].cause = e1
        /\ execs[e2].outcome = "played" /\ execs[e2].cause = e2
        /\ idleObs = {} /\ errObs = {}

\* C9: every session connectToChannel returned was in the Ready state at the
\* moment of return.
C9_ReturnedSessionReady ==
    \A e \in ExecIds : execs[e].retStatus \in {"none", "ready"}

AttemptsInFlight(g) ==
    {s \in SessionIds : sessions[s].status # "free" /\ sessions[s].guildId = g /\ attempts[s] > 0}

\* C10: per guild at most one reconnection attempt is in flight, and the guild
\* carries the in-flight mark exactly while an attempt is in flight.
C10_OneReconnectAttempt ==
    \A g \in Guilds :
        /\ Cardinality(AttemptsInFlight(g)) <= 1
        /\ \A s \in AttemptsInFlight(g) : attempts[s] = 1
        /\ g \in reconnecting <=> AttemptsInFlight(g) # {}

C10_Witness ==
    \E s \in SessionIds :
        /\ sessions[s].handlers >= 2
        /\ sessions[s].status = "disconnected"
        /\ attempts[s] = 1
        /\ sessions[s].guildId \in reconnecting


\* A reconnection attempt on session s ends in this step.
AttemptEnds(s) == attempts[s] > 0 /\ attempts'[s] = 0

\* C11: when a reconnection attempt ends because the session reported
\* Signalling or Connecting, the session is not destroyed and the guild's map
\* entry is kept as it was; when it ends because neither came within 5 s,
\* the session is destroyed and the guild has no map entry.
C11_ReconnectOutcome ==
    [][\A s \in SessionIds :
          AttemptEnds(s) =>
            LET g == sessions[s].guildId IN
            IF sessions'[s].status \in {"signalling", "connecting"}
            THEN /\ sessions'[s].destroys = sessions[s].destroys
                 /\ connections'[g] = connections[g]
                 /\ tracked'[g] = s
            ELSE /\ sessions'[s].status = "destroyed"
                 /\ sessions'[s].destroys = 1
                 /\ connections'[g] = Null
                 /\ g \notin reconnecting']_vars

C11_Witness ==
    /\ drops = 1
    /\ timers = EmptyBag
    /\ \A s \in SessionIds : sessions[s].discCalls = 0 /\ attempts[s] = 0
    /\ \E s \in SessionIds, e \in ExecIds :
          /\ execs[e].connection = s
          /\ execs[e].retStatus = "ready"
          /\ execs[e].pc # "done"
          /\ sessions[s].status = "destroyed"
          /\ connections[sessions[s].guildId] = Null


\* Session s has a disconnect timer pending for its guild.
TeardownPending(s) == \E t \in BagToSet(timers) : t.guildId = sessions[s].guildId

\* C12: a session that connectToChannel opened and gave up on after the 30 s
\* wait for Ready does not stay for ever live, not Ready and without a pending
\* teardown: it is eventually destroyed, or Ready, or has a teardown pending.
C12_TimedOutSessionTornDown ==
    \A e \in ExecIds : \A s \in SessionIds :
        (execs[e].outcome = "connectFailed" /\ execs[e].joined = s)
        ~> \/ sessions[s].status \in {"destroyed", "ready"}
           \/ TeardownPending(s)


\* C13: once disconnectAll has returned (at shutdown), no guild has a live
\* voice session, whether or not the session had reached Ready or had a map
\* entry.
C13_DisconnectAllLeavesNoSession ==
    exited => \A s \in SessionIds : ~Live(sessions[s])

\* C14: in every state between two callbacks, a guild has an entry in the
\* session map exactly when it has a live session; in particular the entry is
\* there while connectToChannel waits for Ready.
C14_MapIsSourceOfTruth ==
    \A g \in Guilds : connections[g] # Null <=> LiveSessions(g) # {}


\* The executions launched by trigger number t (counted from 0).
ExecsOfTrigger(t) ==
    {e \in ExecIds : e > t * Len(channelIds) /\ e <= (t + 1) * Len(channelIds)}

\* C15: whatever fails inside a per-channel execution (lookup, connect,
\* rotation set, synthesis, missing file, playback error), the execution's
\* promise does not reject, and neither does the promise of
\* _executeEventForAllChannels.
C15_FailuresCaught ==
    /\ \A e \in ExecIds : ~execs[e].rejected
    /\ \A t \in 0 .. (MaxExecs - 1) :
          t < nTriggers => ~AllSettledRejects({execs[e].rejected : e \in ExecsOfTrigger(t)})

C15_Witness ==
    \E e1, e2 \in ExecIds :
        /\ execs[e1].pc = "done" /\ execs[e1].outcome = "connectFailed"
        /\ execs[e2].pc = "done" /\ execs[e2].outcome = "playError"
        /\ ~execs[e1].rejected /\ ~execs[e2].rejected


\* The ends of an execution that play nothing by design or by an early failure.
SilentOutcomes == {"maintenance", "nousers", "nochannel", "assetFailed", "fileNotFound"}

\* C16: an execution that ended on a skip path, on a failed asset resolution
\* or on a missing audio file has joined no voice channel: it made no
\* connectToChannel call and holds no session.
C16_SilentPathsJoinNothing ==
    \A e \in ExecIds :
        (execs[e].pc = "done" /\ execs[e].outcome \in SilentOutcomes)
        => /\ execs[e].calls.connect = 0
           /\ execs[e].connection = Null


\* C17: when the occupancy fetch throws or yields no channel or a non-voice
\* channel, _hasUsersInChannel answers false without throwing, and the
\* execution (of an event that requires users) is skipped: it ends at once,
\* not rejected, with no connect and no playback.
C17_OccupancyFailsClosed ==
    \A e \in ExecIds :
        execs[e].occupancy \in {"throws", "null", "text"}
        => /\ execs[e].pc = "done"
           /\ execs[e].outcome = "nousers"
           /\ ~execs[e].rejected
           /\ execs[e].calls.connect = 0
           /\ execs[e].calls.play = 0
           /\ execs[e].calls.disconnect = 0

C17_Witness ==
    \E e1, e2 \in ExecIds :
        /\ e1 # e2
        /\ execs[e1].occupancy = "throws" /\ members[execs[e1].channelId] = {Human}
        /\ execs[e2].occupancy = "text"
        /\ execs[e1].pc = "done" /\ execs[e2].pc = "done"


\* Execution e's playFile call fails on a missing file in this step.
FileNotFoundStep(e) == execs[e].pc # "done" /\ execs'[e].outcome = "fileNotFound"

\* C18: a playFile call for a path that does not exist fails before it
\* touches the player or the session: the player, the current resource and
\* the registered observers are as before, and no session gains a
\* subscription.
C18_MissingFileNoEffect ==
    [][\A e \in ExecIds :
          FileNotFoundStep(e) =>
            /\ execs'[e].calls.play = execs[e].calls.play + 1
            /\ player' = player
            /\ currentResource' = currentResource
            /\ idleObs' = idleObs
            /\ errObs' = errObs
            /\ \A s \in SessionIds : sessions'[s].subscribed = sessions[s].subscribed]_vars

C18_Witness ==
    \E e \in ExecIds :
        /\ execs[e].outcome = "fileNotFound"
        /\ execs[e].connection # Null
        /\ ~player.exists
        /\ \A s \in SessionIds : ~sessions[s].subscribed


\* C19: getRotatedAudio returns element (hour mod N) of a registered set of
\* N >= 1 files, for every hour 0..23, and fails with the not-found error for
\* every other set name.
C19_RotationContract ==
    rotation.done =>
        IF rotation.setName \in DOMAIN AudioSets /\ Len(AudioSets[rotation.setName]) >= 1
        THEN rotation.result =
                AudioSets[rotation.setName][(rotation.hour % Len(AudioSets[rotation.setName])) + 1]
        ELSE rotation.result = ""


\* Call j was made after call i had returned, with the same text, voice, rate
\* and pitch, and the cache was not cleared in between.
Repeats(i, j) ==
    /\ i # j
    /\ tts.calls[i].status = "returned"
    /\ tts.calls[i].returnedAt < tts.calls[j].calledAt
    /\ tts.calls[i].clearsAtReturn = tts.calls[j].clearsAtCall
    /\ tts.calls[i].text = tts.calls[j].text
    /\ tts.calls[i].voice = tts.calls[j].voice
    /\ tts.calls[i].rate = tts.calls[j].rate
    /\ tts.calls[i].pitch = tts.calls[j].pitch

\* Call j was answered from the cache with the path call i returned.
AnsweredFromCache(i, j) ==
    /\ tts.calls[j].status = "returned"
    /\ tts.calls[j].path = tts.calls[i].path
    /\ ~tts.calls[j].synthesized

\* C20 as stated: every generate call that repeats a successful one, the
\* cache not cleared in between, returns the same path without synthesis.
C20_EveryRepeatFromCache ==
    \A i, j \in DOMAIN tts.calls : Repeats(i, j) => AnsweredFromCache(i, j)

\* C20: a generate call that repeats a successful one, the cache not cleared
\* in between, and that does not pass useCache: false, returns the same path
\* without invoking the synthesis.
C20_RepeatFromCache ==
    \A i, j \in DOMAIN tts.calls :
        (Repeats(i, j) /\ tts.calls[j].useCache) => AnsweredFromCache(i, j)

C20_Witness ==
    /\ Len(tts.calls) = 2
    /\ Repeats(1, 2)
    /\ tts.calls[1].synthesized
    /\ tts.calls[1].rate = "+10%"
    /\ tts.calls[2].useCache
    /\ AnsweredFromCache(1, 2)


\* The (text, voice, rate, pitch) a generate call asked for.
Request(i) == << tts.calls[i].text, tts.calls[i].voice, tts.calls[i].rate, tts.calls[i].pitch >>

\* C21: two generate calls that differ in text, voice, rate or pitch (the
\* options of the call included) use different cache entries: they never
\* return the same file.
C21_KeyCoversRequest ==
    \A i, j \in DOMAIN tts.calls :
        ( /\ tts.calls[i].status = "returned"
          /\ tts.calls[j].status = "returned"
          /\ Request(i) # Request(j) )
        => tts.calls[i].path # tts.calls[j].path





\* The enabled events of the array whose expression is valid.
Schedulable(k) == eventList[k].enabled /\ eventList[k].cron = "valid"

\* The tasks created for the event called n.
JobsOf(n) == { j \in DOMAIN jobs : jobs[j].event = n }

C23_StopAllStopsEveryTimer ==
    [][ ( /\ \E n \in EventNames : scheduledJobs[n] # 0
          /\ \A n \in EventNames : scheduledJobs'[n] = 0 )
        => \A j \in DOMAIN jobs' : ~jobs'[j].running ]_vars

\* C24: after initialize the registry holds a job for an event exactly when
\* the event is enabled and its schedule expression is valid.
C24_RegistryIffEnabledAndValid ==
    startup.pc = "ready" =>
        \A ev \in Events :
            scheduledJobs[ev.name] # 0
            <=> \E k \in DOMAIN eventList : eventList[k] = ev /\ Schedulable(k)

\* Startup finished on the array with a disabled event, an invalid
\* expression and a speech event: only the last has a job.
C24_Witness ==
    /\ startup.pc = "ready"
    /\ eventList = << EventByName("D"), EventByName("X"), EventByName("S") >>
    /\ scheduledJobs["S"] # 0
    /\ jobs[scheduledJobs["S"]].running



\* The gates of an execution are behind it: outside the window, and the
\* occupancy lookup answered when the event asks for it.
GatesPassed(x) ==
    /\ ~IsMaintenanceWindow(x.now)
    /\ RequireUsers(EventByName(x.event)) => x.occupancy # "none"

\* C25: the steps of one execution are sequential and happen at most once:
\* connectToChannel is called from the channel lookup, after the gates;
\* playFile from the end of the settle delay (or of the synthesis behind it)
\* with the returned session; the disconnect when the execution ends, after
\* playFile settled; an ended execution makes no further call, so a failed
\* connect is not retried.
C25_StepsSequentialOnce ==
    /\ [](\A e \in ExecIds :
            /\ execs[e].calls.connect <= 1
            /\ execs[e].calls.play <= 1
            /\ execs[e].calls.disconnect <= 1
            /\ execs[e].calls.connect = 1 => GatesPassed(execs[e])
            /\ execs[e].calls.play = 1 =>
                   execs[e].calls.connect = 1 /\ execs[e].connection # Null
            /\ execs[e].calls.disconnect = 1 => execs[e].pc \in {"done", "resolved"}
            /\ execs[e].outcome = "connectFailed" =>
                   execs[e].calls.connect = 1 /\ execs[e].calls.play = 0)
    /\ [][\A e \in ExecIds :
            /\ execs'[e].calls.connect > execs[e].calls.connect =>
                   execs[e].pc = "fetch" /\ GatesPassed(execs'[e])
            /\ execs'[e].calls.play > execs[e].calls.play =>
                   execs[e].pc \in {"delay", "gen"} /\ execs[e].connection # Null
            /\ execs'[e].calls.disconnect > execs[e].calls.disconnect =>
                   /\ execs[e].pc \in {"connect", "delay", "gen", "play"}
                   /\ execs'[e].pc = "done"
                   /\ execs'[e].calls.play = 1 =>
                          execs[e].pc = "play" \/ execs'[e].outcome = "fileNotFound"
            /\ execs[e].pc = "done" => execs'[e].calls = execs[e].calls]_vars

\* An execution that went through every step once: two lookups, one connect,
\* one playFile that finished, one disconnect.
C25_Witness ==
    \E e \in ExecIds :
        /\ execs[e].outcome = "played"
        /\ execs[e].calls = [lookup |-> 2, connect |-> 1, play |-> 1, disconnect |-> 1]



\* The execution ran its finally block: it is over, and it requested the
\* disconnect if it held a connection.
CleanedUp(e) ==
    /\ execs[e].pc = "done"
    /\ ShouldDisconnect(execs[e], execs[e].outcome) => execs[e].calls.disconnect = 1

\* C26: every started execution eventually ends and has run its cleanup
\* (unless the process exits first), given that lookups settle, the connect
\* timeout fires and the engine reports the end of the last resource
\* submitted; also when another playFile replaced its resource.
C26_ExecutionEndsInCleanup ==
    \A e \in ExecIds : Started(e) ~> (CleanedUp(e) \/ exited)

\* An execution whose playFile was settled by the end of the resource that
\* replaced its own, and which then requested its disconnect.
C26_Witness ==
    \E a, b \in ExecIds :
        /\ a # b
        /\ CleanedUp(a)
        /\ execs[a].outcome = "played"
        /\ execs[a].cause = b
        /\ execs[a].calls.disconnect = 1



\* The executions of speech events that have resolved their audio path.
SpeechResolved ==
    { e \in ExecIds : EventByName(execs[e].event).type = "tts" /\ execs[e].asset # "none" }

\* C27: a speech event whose pre-generation succeeded has its path in the
\* registry, and every execution of it takes the path from there without
\* calling generate; one whose pre-generation failed has no entry, and its
\* executions call generate when they fire.
C27_PregeneratedPathUsed ==
    /\ [](\A e \in SpeechResolved :
            IF pregeneratedAudio[execs[e].event] # << >>
            THEN execs[e].asset = "registry"
            ELSE execs[e].asset \in {"cached", "synthesized"})
    /\ [][\A n \in EventNames :
            (n \in startup.inflight /\ n \notin startup'.inflight)
            => /\ pregeneratedAudio'[n] # << >>
                  <=> CacheKey(EventByName(n).content) \in cache'
               /\ pregeneratedAudio'[n] # << >>
                  => pregeneratedAudio'[n] = CacheKey(EventByName(n).content)]_vars

\* A speech execution that played the pre-generated file.
C27_Witness ==
    \E e \in ExecIds :
        /\ execs[e].event = "T"
        /\ pregeneratedAudio["T"] = CacheKey("hola")
        /\ execs[e].asset = "registry"
        /\ execs[e].outcome = "played"



\* The wall clock of the call under study, as a minute of the week.
WindowWall == WallMinute(window.day, window.minute, window.offset)

\* C28: _isMaintenanceWindow is true exactly when, in the configured zone,
\* the day is Tuesday and the minute of the day m has 810 <= m < 1170.
C28_WindowExactlyTuesdayHalfOpen ==
    window.done =>
        ( window.result
          <=> /\ WindowWall \div 1440 = 2
              /\ 810 <= WindowWall % 1440
              /\ WindowWall % 1440 < 1170 )

\* The call at Tuesday 19:29 in Mexico City (Wednesday 01:29 UTC) returned true.
C28_Witness ==
    /\ window.done
    /\ window.offset = 0 - 360
    /\ window.day = 3
    /\ window.minute = 89
    /\ window.result



\* What the event of execution e says about requireUsers.
RequireUsersOf(e) == EventByName(execs[e].event).requireUsers

\* C29: requireUsers defaults to true: an execution of an event with
\* requireUsers absent is gated like one with requireUsers true (the
\* occupancy lookup comes first and decides); only with requireUsers false is
\* the lookup not made, and the execution goes on to the channel lookup and
\* the connect whatever the occupancy.
C29_OccupancyDefaultsTrue ==
    /\ [](\A e \in ExecIds :
            (Started(e) /\ ~IsMaintenanceWindow(execs[e].now)) =>
                IF RequireUsersOf(e) \in {"true", "absent"}
                THEN /\ execs[e].pc = "occ" <=> execs[e].occupancy = "none"
                     /\ execs[e].pc = "occ" => execs[e].calls.lookup = 1
                     /\ NoHumans(execs[e].channelId) => execs[e].calls.connect = 0
                     /\ (execs[e].pc # "occ" /\ execs[e].outcome # "nousers")
                            => execs[e].occupancy = "voice" /\ ~NoHumans(execs[e].channelId)
                ELSE /\ execs[e].occupancy = "none"
                     /\ execs[e].pc # "occ"
                     /\ execs[e].outcome # "nousers"
                     /\ execs[e].calls.lookup = 1)
    /\ [][\A e \in ExecIds :
            (~Started(e) /\ execs'[e].pc \notin {"idle", "done"})
            => execs'[e].pc = IF RequireUsersOf(e)' = "false" THEN "fetch" ELSE "occ"]_vars

\* With nobody in the channel, an execution of the event with requireUsers
\* false has connected and one of the event without requireUsers was skipped.
C29_Witness ==
    \E e1, e2 \in ExecIds :
        /\ RequireUsersOf(e1) = "false"
        /\ NoHumans(execs[e1].channelId)
        /\ execs[e1].calls.connect = 1
        /\ execs[e1].connection # Null
        /\ Started(e2)
        /\ RequireUsersOf(e2) = "absent"
        /\ execs[e2].outcome = "nousers"



\* The executions the i-th triggerEvent call started.
ManualExecs(i) ==
    IF manual[i].first = 0 THEN {}
    ELSE manual[i].first .. (manual[i].first + Len(channelIds) - 1)

\* The step is a triggerEvent call.
ManualCall == Len(manual') = Len(manual) + 1

\* C30: triggerEvent(name) for the name of an event of the array starts, for
\* every configured channel, the execution a cron trigger of that event
\* starts, and these executions pass the maintenance and occupancy gates like
\* any other; for a name no event has it starts nothing and changes nothing.
C30_ManualTriggerLikeCron ==
    /\ [](\A i \in DOMAIN manual :
            /\ manual[i].first = 0
                   <=> \A k \in DOMAIN eventList : eventList[k].name # manual[i].name
            /\ \A e \in ManualExecs(i) :
                   /\ Started(e)
                   /\ execs[e].event = manual[i].name
                   /\ execs[e].channelId = channelIds[e - manual[i].first + 1]
                   /\ IsMaintenanceWindow(manual[i].now) =>
                          /\ execs[e].outcome = "maintenance"
                          /\ execs[e].calls = NewExec.calls
                   /\ (RequireUsers(EventByName(execs[e].event)) /\ NoHumans(execs[e].channelId)) =>
                          /\ execs[e].calls.connect = 0
                          /\ execs[e].calls.play = 0
                          /\ execs[e].calls.disconnect = 0)
    /\ [][ManualCall =>
            LET call == manual'[Len(manual')] IN
            IF call.first = 0
            THEN /\ execs' = execs
                 /\ nTriggers' = nTriggers
                 /\ sessions' = sessions
                 /\ connections' = connections
                 /\ timers' = timers
                 /\ player' = player
            ELSE /\ execs' = LaunchAll(World, nTriggers, LaunchIndices, call.name, call.now).execs
                 /\ sessions' = sessions
                 /\ nTriggers' = nTriggers + 1]_vars

\* A manual trigger of the file event went through: its execution for the
\* occupied channel played, the one for the empty channel was skipped.
C30_Witness ==
    \E i \in DOMAIN manual : \E e1, e2 \in ManualExecs(i) :
        /\ manual[i].name = "A"
        /\ execs[e1].outcome = "played"
        /\ execs[e2].outcome = "nousers"



\* Execution e holds the session connectToChannel returned to it and its
\* playFile has not settled.
Using(e) == execs[e].pc \in {"delay", "gen", "play"} /\ execs[e].connection # Null

\* A disconnect timer fires in this step.
TimerFires == BagCardinality(timers') < BagCardinality(timers)

\* C31: a disconnect timer that fires never destroys the session of a later
\* execution for the same guild (one that got its session from
\* connectToChannel while the timer was pending) which is still using it.
C31_TimerSparesLaterExecution ==
    [][TimerFires =>
          \A e \in ExecIds :
              ( /\ Using(e)
                /\ execs[e].pendingDisconnect
                /\ sessions[execs[e].connection].status # "destroyed" )
              => sessions'[execs[e].connection].status # "destroyed"]_vars



\* C32: whatever the order of disconnect timers, reconnection-failure
\* cleanups and disconnectAll, destroy runs at most once on a session and
\* never on one that is already destroyed (which would throw): a destroyed
\* session has left the registry the teardown paths look it up in, and a
\* teardown that finds no session leaves the sessions as they are.
C32_TeardownAtMostOnce ==
    /\ [](/\ ~threw
          /\ \A s \in SessionIds :
                /\ sessions[s].destroys = IF sessions[s].status = "destroyed" THEN 1 ELSE 0
                /\ sessions[s].status = "destroyed" =>
                       \A g \in Guilds : tracked[g] # s /\ connections[g] # s)
    /\ [][\A s \in SessionIds :
            sessions[s].status = "destroyed" => sessions'[s] = sessions[s]]_vars

\* A session destroyed exactly once although a transport drop, two
\* disconnect requests whose timers have both fired, and disconnectAll all
\* went over it.
C32_Witness ==
    \E s \in SessionIds :
        /\ sessions[s].destroys = 1
        /\ sessions[s].discCalls = 2
        /\ PendingTimers(s) = {}
        /\ timers = EmptyBag
        /\ drops = 1
        /\ exited



\* Execution e's connectToChannel call starts in this step and suspends at
\* its wait for Ready.
ConnectSuspends(e) == execs[e].pc = "fetch" /\ execs'[e].pc = "connect"

\* Execution e's connectToChannel call fails in this step: the wait for
\* Ready timed out.
ConnectFails(e) == execs[e].pc = "connect" /\ execs'[e].outcome = "connectFailed"

\* C33: a connectToChannel call that fails writes nothing to the per-guild
\* session map: neither the step that starts the call and suspends it nor
\* the step in which it fails adds, changes or removes an entry of any guild.
C33_FailedConnectLeavesMap ==
    [][\A e \in ExecIds :
          (ConnectSuspends(e) \/ ConnectFails(e)) => connections' = connections]_vars

\* A failed connectToChannel call in a guild whose map entry, made by an
\* earlier call, is still there.
C33_Witness ==
    \E e \in ExecIds :
        /\ execs[e].outcome = "connectFailed"
        /\ execs[e].calls.connect = 1
        /\ connections[ExecGuild(e)] # Null



\* C34: no execution ever runs for an event whose enabled flag is false,
\* whether a cron timer or triggerEvent(name) started it.
C34_DisabledNeverRuns ==
    \A e \in ExecIds : Started(e) => EventByName(execs[e].event).enabled

=============================================================================
